---------------------------- MODULE Spec2Model ----------------------------
(***************************************************************************)
(* A model of tftargets (src/app.go, src/cli.go): the source classifier,   *)
(* the configuration scanner, the dependency-closure builder and the       *)
(* impact resolver of App.listTargets.                                     *)
(*                                                                         *)
(* Go strings are modelled as sequences of one-character strings, so that  *)
(* strings.HasPrefix, strings.Contains, filepath.Join and the registry     *)
(* regular expression are computed on characters, as the code does.        *)
(***************************************************************************)
EXTENDS Naturals, Integers, Sequences, FiniteSets, TLC

VARIABLES
    pc,               \* position of App.listTargets / the harness of a pure function
    baseTargets,      \* CLI.BaseTargets, decoded: the forced targets
    modules,          \* what tfconfig.LoadModule answers per directory
    targetCandidates, \* result of findTargetCandidates
    changes,          \* result of getChangedFilesFromGit
    pending,          \* candidates the loop of listTargets has not reached yet
    current,          \* the candidate whose closure is being computed
    stack,            \* the frames of the recursive getModuleCalls
    candidateModules, \* listTargets' map candidate -> closure
    output,           \* what listTargets printed: [emitted, targets]
    err,              \* the error listTargets returned ("" for none)
    source,           \* argument of DetectModuleSourceType
    sourceType,       \* its result
    tree,             \* the file tree findTargetCandidates walks
    scanResult,       \* its result: [err, dirs]
    prevModules,      \* closures computed before the configuration was edited
    edit              \* the edit made to the configuration: [dir, src] or NoEdit

vars == << pc, baseTargets, modules, targetCandidates, changes, pending, current,
           stack, candidateModules, output, err, source, sourceType, tree,
           scanResult, prevModules, edit >>

-----------------------------------------------------------------------------
(* Bounds of the model. *)

\* deepest recursion of getModuleCalls that is explored
MaxDepth == 4
\* most module calls one directory declares
MaxRefs == 2
\* most changed files git reports
MaxChanges == 2
\* most pieces a classifier input is concatenated from
MaxPieces == 3

-----------------------------------------------------------------------------
(* Characters and strings. *)

NL == "\n"
Sep == "/"

Letters == {"a", "b", "c", "e", "f", "g", "h", "i", "m", "n", "o", "p", "r", "s",
            "t", "u", "x", "A", "B"}
Digits == {"3"}

\* the character class [a-zA-Z0-9_-] of the registry pattern
IsWordChar(c) == c \in Letters \cup Digits \cup {"_", "-"}

RECURSIVE Concat(_)
Concat(ss) == IF ss = << >> THEN << >> ELSE Head(ss) \o Concat(Tail(ss))

\* strings.HasPrefix
HasPrefix(s, prefix) ==
    /\ Len(prefix) <= Len(s)
    /\ SubSeq(s, 1, Len(prefix)) = prefix

\* strings.HasSuffix
HasSuffix(s, suffix) ==
    /\ Len(suffix) <= Len(s)
    /\ SubSeq(s, Len(s) - Len(suffix) + 1, Len(s)) = suffix

\* strings.Contains
StrContains(s, substr) ==
    \E i \in 1..(Len(s) + 1) :
        /\ i + Len(substr) - 1 <= Len(s)
        /\ SubSeq(s, i, i + Len(substr) - 1) = substr

-----------------------------------------------------------------------------
(* path/filepath: Clean, Join, Dir (Unix separator). *)

\* the elements of a path between separators, empty ones included
RECURSIVE SplitFrom(_, _, _)
SplitFrom(s, i, acc) ==
    IF i > Len(s) THEN << acc >>
    ELSE IF s[i] = Sep THEN << acc >> \o SplitFrom(s, i + 1, << >>)
    ELSE SplitFrom(s, i + 1, Append(acc, s[i]))

Split(s) == SplitFrom(s, 1, << >>)

Dot == << "." >>
DotDot == << ".", "." >>

\* Clean's element loop: drop "" and ".", let ".." cancel the element before it
RECURSIVE CleanElems(_, _, _)
CleanElems(elems, out, rooted) ==
    IF elems = << >> THEN out
    ELSE LET e == Head(elems)
             rest == Tail(elems)
         IN IF e = << >> \/ e = Dot THEN CleanElems(rest, out, rooted)
            ELSE IF e = DotDot THEN
                IF out # << >> /\ out[Len(out)] # DotDot
                THEN CleanElems(rest, SubSeq(out, 1, Len(out) - 1), rooted)
                ELSE IF rooted THEN CleanElems(rest, out, rooted)
                ELSE CleanElems(rest, Append(out, e), rooted)
            ELSE CleanElems(rest, Append(out, e), rooted)

RECURSIVE JoinElems(_)
JoinElems(elems) ==
    IF elems = << >> THEN << >>
    ELSE IF Len(elems) = 1 THEN elems[1]
    ELSE elems[1] \o << Sep >> \o JoinElems(Tail(elems))

\* filepath.Clean
Clean(path) ==
    IF path = << >> THEN Dot
    ELSE LET rooted == path[1] = Sep
             body == JoinElems(CleanElems(Split(path), << >>, rooted))
         IN IF rooted THEN << Sep >> \o body
            ELSE IF body = << >> THEN Dot
            ELSE body

\* filepath.Join of two elements
Join(a, b) ==
    IF a = << >> /\ b = << >> THEN << >>
    ELSE IF a = << >> THEN Clean(b)
    ELSE IF b = << >> THEN Clean(a)
    ELSE Clean(a \o << Sep >> \o b)

\* index of the last separator of a path, 0 when there is none
RECURSIVE LastSep(_, _)
LastSep(s, i) == IF i = 0 THEN 0 ELSE IF s[i] = Sep THEN i ELSE LastSep(s, i - 1)

\* filepath.Dir
Dir(path) == Clean(SubSeq(path, 1, LastSep(path, Len(path))))

\* filepath.Base of a cleaned path: os.FileInfo.Name() of a walked entry
Base(path) == SubSeq(path, LastSep(path, Len(path)) + 1, Len(path))

-----------------------------------------------------------------------------
(* The source classifier: DetectModuleSourceType. *)

ModuleSourceTypeLocal == "local"
ModuleSourceTypeRegistry == "registry"
ModuleSourceTypeGit == "git"
ModuleSourceTypeGitHub == "github"
ModuleSourceTypeHTTP == "http"
ModuleSourceTypeS3 == "s3"
ModuleSourceTypeGCS == "gcs"
ModuleSourceTypeMercurial == "mercurial"
ModuleSourceTypeUnknown == "unknown"

S_dotSlash == << ".", "/" >>
S_dotDotSlash == << ".", ".", "/" >>
S_git == << "g", "i", "t", ":", ":" >>
S_hg == << "h", "g", ":", ":" >>
S_s3 == << "s", "3", ":", ":" >>
S_gcs == << "g", "c", "s", ":", ":" >>
S_http == << "h", "t", "t", "p", ":", "/", "/" >>
S_https == << "h", "t", "t", "p", "s", ":", "/", "/" >>
S_github == << "g", "i", "t", "h", "u", "b", ".", "c", "o", "m", "/" >>
S_gitAt == << "g", "i", "t", "@" >>

\* end (exclusive) of the longest run of [a-zA-Z0-9_-] that starts at i
RECURSIVE WordRun(_, _)
WordRun(s, i) ==
    IF i <= Len(s) /\ IsWordChar(s[i]) THEN WordRun(s, i + 1) ELSE i

\* (//.*)?$ at position i: the end of the text, or "//" and then no newline
\* up to the end ('.' does not match a newline, '$' matches at the end only)
TailMatch(s, i) ==
    \/ i = Len(s) + 1
    \/ /\ i + 1 <= Len(s)
       /\ s[i] = Sep
       /\ s[i + 1] = Sep
       /\ \A k \in (i + 2)..Len(s) : s[k] # NL

\* registryPattern.MatchString:
\* ^[a-zA-Z0-9_-]+/[a-zA-Z0-9_-]+/[a-zA-Z0-9_-]+(//.*)?$
RegistryPatternMatch(s) ==
    LET e1 == WordRun(s, 1)
    IN /\ e1 > 1
       /\ e1 <= Len(s)
       /\ s[e1] = Sep
       /\ LET e2 == WordRun(s, e1 + 1)
          IN /\ e2 > e1 + 1
             /\ e2 <= Len(s)
             /\ s[e2] = Sep
             /\ LET e3 == WordRun(s, e2 + 1)
                IN /\ e3 > e2 + 1
                   /\ TailMatch(s, e3)

\* a classifier that takes only "./" for a local path
DetectModuleSourceType_NoParent(src) ==
    IF HasPrefix(src, S_dotSlash) THEN ModuleSourceTypeLocal
    ELSE IF HasPrefix(src, S_git) THEN ModuleSourceTypeGit
    ELSE IF HasPrefix(src, S_hg) THEN ModuleSourceTypeMercurial
    ELSE IF HasPrefix(src, S_s3) THEN ModuleSourceTypeS3
    ELSE IF HasPrefix(src, S_gcs) THEN ModuleSourceTypeGCS
    ELSE IF HasPrefix(src, S_http) \/ HasPrefix(src, S_https) THEN ModuleSourceTypeHTTP
    ELSE IF HasPrefix(src, S_github) THEN ModuleSourceTypeGitHub
    ELSE IF HasPrefix(src, S_gitAt) THEN ModuleSourceTypeGit
    ELSE IF RegistryPatternMatch(src) THEN ModuleSourceTypeRegistry
    ELSE ModuleSourceTypeUnknown

DetectModuleSourceType(src) ==
    IF HasPrefix(src, S_dotSlash) \/ HasPrefix(src, S_dotDotSlash) THEN ModuleSourceTypeLocal
    ELSE IF HasPrefix(src, S_git) THEN ModuleSourceTypeGit
    ELSE IF HasPrefix(src, S_hg) THEN ModuleSourceTypeMercurial
    ELSE IF HasPrefix(src, S_s3) THEN ModuleSourceTypeS3
    ELSE IF HasPrefix(src, S_gcs) THEN ModuleSourceTypeGCS
    ELSE IF HasPrefix(src, S_http) \/ HasPrefix(src, S_https) THEN ModuleSourceTypeHTTP
    ELSE IF HasPrefix(src, S_github) THEN ModuleSourceTypeGitHub
    ELSE IF HasPrefix(src, S_gitAt) THEN ModuleSourceTypeGit
    ELSE IF RegistryPatternMatch(src) THEN ModuleSourceTypeRegistry
    ELSE ModuleSourceTypeUnknown

-----------------------------------------------------------------------------
(* The configuration scanner: findTargetCandidates and hasTerraformBlock.  *)
(* A tree is the sequence of entries filepath.Walk visits, in its lexical  *)
(* order. An entry is [path, isDir, walkErr, parseOK, blocks]: walkErr     *)
(* says Walk hands the callback an error for it, parseOK says              *)
(* parser.ParseHCLFile reports no error, blocks are the block types of the *)
(* parsed body.                                                            *)

S_tf == << ".", "t", "f" >>
S_terragruntCache == << ".", "t", "e", "r", "r", "a", "g", "r", "u", "n", "t", "-",
                        "c", "a", "c", "h", "e" >>

\* body.PartialContent with the one-block schema, then the loop over its blocks
hasTerraformBlock(blocks) ==
    LET content == SelectSeq(blocks, LAMBDA b : b = "terraform")
    IN \E i \in 1..Len(content) : content[i] = "terraform"

\* a callback that gives up the walk on a file that does not parse
WalkFn_ParseFatal(entry, directories) ==
    IF entry.walkErr THEN [err |-> TRUE, directories |-> directories]
    ELSE IF entry.isDir THEN [err |-> FALSE, directories |-> directories]
    ELSE IF HasSuffix(Base(entry.path), S_tf) THEN
        IF ~entry.parseOK THEN [err |-> TRUE, directories |-> directories]
        ELSE IF hasTerraformBlock(entry.blocks)
        THEN [err |-> FALSE, directories |-> directories \cup {Dir(entry.path)}]
        ELSE [err |-> FALSE, directories |-> directories]
    ELSE [err |-> FALSE, directories |-> directories]

\* the callback findTargetCandidates hands to filepath.Walk
WalkFn(entry, directories) ==
    IF entry.walkErr THEN [err |-> TRUE, directories |-> directories]
    ELSE IF entry.isDir THEN [err |-> FALSE, directories |-> directories]
    ELSE IF HasSuffix(Base(entry.path), S_tf) THEN
        IF ~entry.parseOK THEN [err |-> FALSE, directories |-> directories]
        ELSE IF hasTerraformBlock(entry.blocks)
        THEN [err |-> FALSE, directories |-> directories \cup {Dir(entry.path)}]
        ELSE [err |-> FALSE, directories |-> directories]
    ELSE [err |-> FALSE, directories |-> directories]

\* filepath.Walk: the callback on every entry in order, stopping at the first error
RECURSIVE Walk(_, _)
Walk(entries, directories) ==
    IF entries = << >> THEN [err |-> FALSE, directories |-> directories]
    ELSE LET r == WalkFn(Head(entries), directories)
         IN IF r.err THEN r ELSE Walk(Tail(entries), r.directories)

\* findTargetCandidates: [err, dirs]
findTargetCandidates(entries) ==
    LET w == Walk(entries, {})
    IN IF w.err THEN [err |-> TRUE, dirs |-> {}]
       ELSE [err |-> FALSE,
             dirs |-> {dir \in w.directories : ~StrContains(dir, S_terragruntCache)}]

-----------------------------------------------------------------------------
(* CLI defaults (GlobalOptions). *)

BaseDir == << "." >>
SearchPath == << "." >>

-----------------------------------------------------------------------------
(* The repository the model runs on: directories, module sources, changed  *)
(* files. Paths are relative to the default --base-dir "." .               *)

\* the root of the walk: filepath.Join(baseDir, searchPath), which is "."
D_root == Join(BaseDir, SearchPath)
D_a == << "a" >>
D_b == << "b" >>
D_m == << "m" >>
D_mm == << "m", "m" >>
D_bm == << "b", "/", "m" >>

R_m == << ".", ".", "/", "m" >>
R_mm == << ".", ".", "/", "m", "m" >>
R_parent == << ".", ".", "/" >>
R_self == << ".", "/" >>
R_git == << "g", "i", "t", ":", ":", "x" >>
R_bare == << "m" >>

F_a == << "a" >>
F_mx == << "m", "/", "x" >>
F_mmx == << "m", "m", "/", "x" >>
F_x == << "x" >>

SubsetsUpTo(S, n) == {T \in SUBSET S : Cardinality(T) <= n}

\* sources the directories a, b, m and mm may declare: in a run of
\* listTargets, and (more of them) when one closure is computed on its own
RunPools == [a |-> {R_m, R_parent, R_git}, b |-> {R_m, R_parent},
             m |-> {R_mm}, mm |-> {R_m}]
ClosurePools == [a |-> {R_m, R_parent, R_git}, b |-> {R_m, R_parent, R_bare},
                 m |-> {R_mm, R_self}, mm |-> {R_m}]

\* the directories whose files tfconfig.LoadModule may fail on
Breakable == {D_a, D_mm}

ModuleGraphs(pools) ==
    { [d \in {D_root, D_a, D_b, D_m, D_mm, D_bm} |->
         [ok |-> d \notin bad,
          calls |-> IF d = D_a THEN ca
                    ELSE IF d = D_b THEN cb
                    ELSE IF d = D_m THEN cm
                    ELSE IF d = D_mm THEN cmm
                    ELSE {}]] :
        ca \in SubsetsUpTo(pools.a, MaxRefs), cb \in SubsetsUpTo(pools.b, MaxRefs),
        cm \in SubsetsUpTo(pools.m, MaxRefs), cmm \in SubsetsUpTo(pools.mm, MaxRefs),
        bad \in SubsetsUpTo(Breakable, 1) }

\* tfconfig.LoadModule(dir): a directory that is not there fails to load
LoadModule(dir) ==
    IF dir \in DOMAIN modules THEN modules[dir] ELSE [ok |-> FALSE, calls |-> {}]

\* the files git may report, in the order git prints them
ChangedPool == << F_a, F_mx, F_mmx, F_x >>

\* strictly increasing index sequences of length at most n
RECURSIVE IncreasingSeqs(_, _)
IncreasingSeqs(hi, n) ==
    IF n = 0 THEN {<< >>}
    ELSE LET shorter == IncreasingSeqs(hi, n - 1)
             longest == {q \in shorter : Len(q) = n - 1}
             ext == {pr \in longest \X (1..hi) :
                        pr[1] = << >> \/ pr[1][Len(pr[1])] < pr[2]}
         IN shorter \cup {Append(pr[1], pr[2]) : pr \in ext}

\* what `git diff --name-only` prints: one path per line
GitOutputs ==
    { Concat([i \in 1..Len(q) |-> ChangedPool[q[i]] \o << NL >>]) :
        q \in IncreasingSeqs(Len(ChangedPool), MaxChanges) }

\* the trees a run of listTargets scans: a/m.tf and b/m.tf, each with or
\* without a terraform block, and a walk that may fail at the root
RunTrees ==
    { << [path |-> D_root, isDir |-> TRUE, walkErr |-> we, parseOK |-> TRUE, blocks |-> << >>],
         [path |-> D_a, isDir |-> TRUE, walkErr |-> FALSE, parseOK |-> TRUE, blocks |-> << >>],
         [path |-> << "a", "/", "m", ".", "t", "f" >>, isDir |-> FALSE, walkErr |-> FALSE,
          parseOK |-> TRUE, blocks |-> ba],
         [path |-> D_b, isDir |-> TRUE, walkErr |-> FALSE, parseOK |-> TRUE, blocks |-> << >>],
         [path |-> << "b", "/", "m", ".", "t", "f" >>, isDir |-> FALSE, walkErr |-> FALSE,
          parseOK |-> TRUE, blocks |-> bb] >> :
        we \in BOOLEAN, ba \in {<< "resource" >>, << "terraform" >>},
        bb \in {<< "resource" >>, << "terraform" >>} }

\* the forced targets a run may be given with --base-targets
ForcedTargets == {<< >>, << D_b >>}

-----------------------------------------------------------------------------
(* getChangedFilesFromGit: [err, files]. fetchOK and diffOK say whether    *)
(* `git fetch` and `git diff` ran; out is what the diff printed.           *)

\* strings.Split(s, "\n")
RECURSIVE SplitLinesFrom(_, _, _)
SplitLinesFrom(s, i, acc) ==
    IF i > Len(s) THEN << acc >>
    ELSE IF s[i] = NL THEN << acc >> \o SplitLinesFrom(s, i + 1, << >>)
    ELSE SplitLinesFrom(s, i + 1, Append(acc, s[i]))

\* the loop over the lines: skip the empty ones, join the others to baseDir
RECURSIVE JoinFiles(_, _)
JoinFiles(baseDir, files) ==
    IF files = << >> THEN << >>
    ELSE IF Head(files) # << >>
         THEN << Join(baseDir, Head(files)) >> \o JoinFiles(baseDir, Tail(files))
         ELSE JoinFiles(baseDir, Tail(files))

getChangedFilesFromGit(baseDir, fetchOK, diffOK, out) ==
    IF ~fetchOK THEN [err |-> TRUE, files |-> << >>]
    ELSE IF ~diffOK THEN [err |-> TRUE, files |-> << >>]
    ELSE [err |-> FALSE, files |-> JoinFiles(baseDir, SplitLinesFrom(out, 1, << >>))]

-----------------------------------------------------------------------------
(* The impact resolver's matching loops (listTargets, second half). *)

\* a test that forgets the separator after the module directory
ChangeInModule_NoSep(change, module) ==
    HasPrefix(change, module) \/ change = module

\* strings.HasPrefix(change, module+string(filepath.Separator)) || change == module
ChangeInModule(change, module) ==
    HasPrefix(change, module \o << Sep >>) \/ change = module

\* the loops over changes, candidates and their modules; a match adds the
\* candidate and leaves the innermost loop only
RECURSIVE MatchChanges(_, _, _)
MatchChanges(chs, cmods, targets) ==
    IF chs = << >> THEN targets
    ELSE MatchChanges(Tail(chs), cmods,
            targets \cup {candidate \in DOMAIN cmods :
                            \E module \in cmods[candidate] :
                                ChangeInModule(Head(chs), module)})

-----------------------------------------------------------------------------
(* App.listTargets and the recursive getModuleCalls.                       *)
(*                                                                         *)
(* A frame of getModuleCalls is [dir, todo, calls, sub]: the directory it  *)
(* was called on, the module calls the range loop has not reached (the     *)
(* loop ranges over a Go map, so its order is free), the set it            *)
(* accumulates, and the source of the local call it is waiting for.        *)

NoSource == << >>
NoCandidate == << >>
NoEdit == [dir |-> << >>, src |-> << >>]
NoOutput == [emitted |-> FALSE, targets |-> {}]
NoneYet == [err |-> FALSE, dirs |-> {}]
NoChanges == [err |-> FALSE, files |-> << >>]
EmptyMap == [c \in {} |-> {}]

Frame(dir, calls) == [dir |-> dir, todo |-> calls, calls |-> {}, sub |-> NoSource]

Top == stack[Len(stack)]

SetTop(f) == [stack EXCEPT ![Len(stack)] = f]

\* `return err` up the whole call chain and out of listTargets
Fail(kind) ==
    /\ pc' = "error"
    /\ err' = kind
    /\ stack' = << >>

\* targetCandidates, err := findTargetCandidates(filepath.Join(baseDir, searchPath))
Scan ==
    /\ pc = "start"
    /\ \E t \in RunTrees :
         LET r == findTargetCandidates(t)
         IN /\ scanResult' = r
            /\ targetCandidates' = r.dirs
            /\ IF r.err THEN Fail("walk")
               ELSE /\ pc' = "scanned"
                    /\ UNCHANGED << err, stack >>
    /\ UNCHANGED << baseTargets, modules, changes, pending, current, candidateModules,
                    output, source, sourceType, tree, prevModules, edit >>

\* changes, err := getChangedFilesFromGit(baseDir, baseBranch, baseCommitSha)
Git ==
    /\ pc = "scanned"
    /\ \E fetchOK \in BOOLEAN, diffOK \in BOOLEAN, out \in GitOutputs :
         LET r == getChangedFilesFromGit(BaseDir, fetchOK, diffOK, out)
         IN /\ changes' = r
            /\ IF r.err THEN Fail("git") /\ UNCHANGED pending
               ELSE /\ pc' = "closures"
                    /\ pending' = targetCandidates
                    /\ UNCHANGED << err, stack >>
    /\ UNCHANGED << baseTargets, modules, targetCandidates, current, candidateModules,
                    output, source, sourceType, tree, scanResult, prevModules, edit >>

\* a loop that goes on with an empty closure when the candidate does not load
CallGetModuleCalls_SkipBroken ==
    /\ pc = "closures"
    /\ stack = << >>
    /\ \E candidate \in pending :
         LET module == LoadModule(candidate)
         IN /\ current' = candidate
            /\ pending' = pending \ {candidate}
            /\ stack' = << Frame(candidate, IF module.ok THEN module.calls ELSE {}) >>
            /\ UNCHANGED << pc, err >>
    /\ UNCHANGED << baseTargets, modules, targetCandidates, changes, candidateModules,
                    output, source, sourceType, tree, scanResult, prevModules, edit >>

\* for _, candidate := range targetCandidates { calls, err := getModuleCalls(candidate)
\* up to the range loop over module.ModuleCalls
CallGetModuleCalls ==
    /\ pc = "closures"
    /\ stack = << >>
    /\ \E candidate \in pending :
         LET module == LoadModule(candidate)
         IN /\ current' = candidate
            /\ pending' = pending \ {candidate}
            /\ IF ~module.ok THEN Fail("load")
               ELSE /\ stack' = << Frame(candidate, module.calls) >>
                    /\ UNCHANGED << pc, err >>
    /\ UNCHANGED << baseTargets, modules, targetCandidates, changes, candidateModules,
                    output, source, sourceType, tree, scanResult, prevModules, edit >>

\* an else branch that adds the path the source would name
NonLocalCall_AddsSource ==
    /\ pc = "closures"
    /\ stack # << >>
    /\ \E src \in Top.todo :
         /\ DetectModuleSourceType(src) # ModuleSourceTypeLocal
         /\ stack' = SetTop([Top EXCEPT !.todo = @ \ {src},
                                        !.calls = @ \cup {Join(Top.dir, src)}])
    /\ UNCHANGED << pc, baseTargets, modules, targetCandidates, changes, pending, current,
                    candidateModules, output, err, source, sourceType, tree, scanResult,
                    prevModules, edit >>

\* the range loop's else branch: calls.Add(dir)
NonLocalCall ==
    /\ pc = "closures"
    /\ stack # << >>
    /\ \E src \in Top.todo :
         /\ DetectModuleSourceType(src) # ModuleSourceTypeLocal
         /\ stack' = SetTop([Top EXCEPT !.todo = @ \ {src}, !.calls = @ \cup {Top.dir}])
    /\ UNCHANGED << pc, baseTargets, modules, targetCandidates, changes, pending, current,
                    candidateModules, output, err, source, sourceType, tree, scanResult,
                    prevModules, edit >>

\* a recursion that does not enter a directory it is already inside
LocalCall_Guarded ==
    /\ pc = "closures"
    /\ stack # << >>
    /\ Len(stack) < MaxDepth
    /\ \E src \in Top.todo :
         /\ DetectModuleSourceType(src) = ModuleSourceTypeLocal
         /\ LET dir == Join(Top.dir, src)
                module == LoadModule(dir)
            IN IF \E i \in 1..Len(stack) : stack[i].dir = dir
               THEN /\ stack' = SetTop([Top EXCEPT !.todo = @ \ {src},
                                                   !.calls = @ \cup {dir}])
                    /\ UNCHANGED << pc, err >>
               ELSE IF ~module.ok THEN Fail("load")
               ELSE /\ stack' = Append(SetTop([Top EXCEPT !.sub = src]),
                                       Frame(dir, module.calls))
                    /\ UNCHANGED << pc, err >>
    /\ UNCHANGED << baseTargets, modules, targetCandidates, changes, pending, current,
                    candidateModules, output, source, sourceType, tree, scanResult,
                    prevModules, edit >>

\* the range loop's local branch, up to the recursive call's own range loop:
\* dependencies, err := getModuleCalls(filepath.Join(dir, mc.Source))
LocalCall ==
    /\ pc = "closures"
    /\ stack # << >>
    /\ Len(stack) < MaxDepth
    /\ \E src \in Top.todo :
         /\ DetectModuleSourceType(src) = ModuleSourceTypeLocal
         /\ LET dir == Join(Top.dir, src)
                module == LoadModule(dir)
            IN IF ~module.ok THEN Fail("load")
               ELSE /\ stack' = Append(SetTop([Top EXCEPT !.sub = src]),
                                       Frame(dir, module.calls))
                    /\ UNCHANGED << pc, err >>
    /\ UNCHANGED << baseTargets, modules, targetCandidates, changes, pending, current,
                    candidateModules, output, source, sourceType, tree, scanResult,
                    prevModules, edit >>

\* the caller's half of a return, with the set it had built thrown away
ReturnInto_Overwrite(caller, dependencies) ==
    [caller EXCEPT !.todo = @ \ {caller.sub},
                   !.calls = dependencies \cup {Join(caller.dir, caller.sub)},
                   !.sub = NoSource]

\* the caller's half of a return: add the dependencies, then
\* calls.Add(filepath.Join(dir, mc.Source))
ReturnInto(caller, dependencies) ==
    [caller EXCEPT !.todo = @ \ {caller.sub},
                   !.calls = @ \cup dependencies \cup {Join(caller.dir, caller.sub)},
                   !.sub = NoSource]

\* a caller that stores the set getModuleCalls returned as it is
StoreCalls_NoRoot(candidate, calls) ==
    [c \in DOMAIN candidateModules \cup {candidate} |->
        IF c = candidate THEN calls ELSE candidateModules[c]]

\* calls.Add(candidate); candidateModules[candidate] = calls
StoreCalls(candidate, calls) ==
    [c \in DOMAIN candidateModules \cup {candidate} |->
        IF c = candidate THEN calls \cup {candidate} ELSE candidateModules[c]]

\* `return calls, nil`: to the frame below, or to listTargets
Return ==
    /\ pc = "closures"
    /\ stack # << >>
    /\ Top.todo = {}
    /\ IF Len(stack) = 1
       THEN /\ candidateModules' = StoreCalls(current, Top.calls)
            /\ stack' = << >>
       ELSE /\ stack' = [i \in 1..(Len(stack) - 1) |->
                            IF i = Len(stack) - 1
                            THEN ReturnInto(stack[i], Top.calls)
                            ELSE stack[i]]
            /\ UNCHANGED candidateModules
    /\ UNCHANGED << pc, baseTargets, modules, targetCandidates, changes, pending, current,
                    output, err, source, sourceType, tree, scanResult, prevModules, edit >>

\* the matching loops, json.Marshal(targets.ToSlice()) (which does not fail
\* on a slice of strings) and fmt.Printf
Resolve ==
    /\ pc = "closures"
    /\ stack = << >>
    /\ pending = {}
    /\ output' = [emitted |-> TRUE,
                  targets |-> MatchChanges(changes.files, candidateModules, {})]
    /\ pc' = "done"
    /\ UNCHANGED << baseTargets, modules, targetCandidates, changes, pending, current,
                    stack, candidateModules, err, source, sourceType, tree, scanResult,
                    prevModules, edit >>

Init ==
    /\ pc = "start"
    /\ baseTargets \in ForcedTargets
    /\ modules \in ModuleGraphs(RunPools)
    /\ targetCandidates = {}
    /\ changes = NoChanges
    /\ pending = {}
    /\ current = NoCandidate
    /\ stack = << >>
    /\ candidateModules = EmptyMap
    /\ output = NoOutput
    /\ err = ""
    /\ source = << >>
    /\ sourceType = ""
    /\ tree = << >>
    /\ scanResult = NoneYet
    /\ prevModules = EmptyMap
    /\ edit = NoEdit

Next ==
    \/ Scan
    \/ Git
    \/ CallGetModuleCalls
    \/ NonLocalCall
    \/ LocalCall
    \/ Return
    \/ Resolve

Spec == Init /\ [][Next]_vars

-----------------------------------------------------------------------------
(* The classifier on its own: every input of a bounded family is           *)
(* classified once.                                                        *)

Pieces ==
    << S_dotSlash, S_dotDotSlash, S_git, S_hg, S_s3, S_gcs, S_http, S_https,
       S_github, S_gitAt,
       << "x" >>, << "/" >>, << "/", "/" >>, << "." >>, << ":" >>, << NL >>,
       << "a", "/", "B", "_", "/", "3", "-" >> >>

\* what follows the first piece of an input
BodyPieces ==
    << << "x" >>, << "/" >>, << "/", "/" >>, << "." >>, << NL >>,
       << "a", "/", "B", "_", "/", "3", "-" >>, S_git, S_https >>

\* the inputs of at most n pieces: one of Pieces, then some of BodyPieces
ClassifierInputs(n) ==
    {<< >>} \cup
    UNION { {Pieces[h] \o Concat([i \in 1..k |-> BodyPieces[t[i]]]) :
                h \in 1..Len(Pieces), t \in [1..k -> 1..Len(BodyPieces)]} :
              k \in 0..(n - 1) }

Classify ==
    /\ pc = "classify"
    /\ sourceType' = DetectModuleSourceType(source)
    /\ pc' = "classified"
    /\ UNCHANGED << baseTargets, modules, targetCandidates, changes, pending, current,
                    stack, candidateModules, output, err, source, tree, scanResult,
                    prevModules, edit >>

ClassifyInit ==
    /\ pc = "classify"
    /\ source \in ClassifierInputs(MaxPieces)
    /\ sourceType = ""
    /\ baseTargets = << >>
    /\ modules = [d \in {} |-> [ok |-> TRUE, calls |-> {}]]
    /\ targetCandidates = {}
    /\ changes = NoChanges
    /\ pending = {}
    /\ current = NoCandidate
    /\ stack = << >>
    /\ candidateModules = EmptyMap
    /\ output = NoOutput
    /\ err = ""
    /\ tree = << >>
    /\ scanResult = NoneYet
    /\ prevModules = EmptyMap
    /\ edit = NoEdit

ClassifyNext == Classify

ClassifySpec == ClassifyInit /\ [][ClassifyNext]_vars

-----------------------------------------------------------------------------
(* The scanner on its own: one scan of every tree of a bounded family.     *)

P_cache == << "a", "/" >> \o S_terragruntCache
P_cache_m == P_cache \o << "/", "m", ".", "t", "f" >>
P_a_m == << "a", "/", "m", ".", "t", "f" >>
P_a_x == << "a", "/", "x", ".", "t", "f" >>
P_b_d == << "b", "/", "d", ".", "t", "f" >>
P_b_n == << "b", "/", "n", ".", "t", "x", "t" >>
P_m == << "m", ".", "t", "f" >>

FileKinds ==
    { [parseOK |-> FALSE, blocks |-> << >>],
      [parseOK |-> TRUE, blocks |-> << "resource" >>],
      [parseOK |-> TRUE, blocks |-> << "terraform" >>],
      [parseOK |-> TRUE, blocks |-> << "resource", "terraform" >>] }

DirEntry(path) ==
    [path |-> path, isDir |-> TRUE, walkErr |-> FALSE, parseOK |-> TRUE, blocks |-> << >>]

FileEntry(path, kind) ==
    [path |-> path, isDir |-> FALSE, walkErr |-> FALSE, parseOK |-> kind.parseOK,
     blocks |-> kind.blocks]

\* entry e of the tree is the one Walk reports an error for (0: none)
WithWalkErr(entries, e) ==
    [i \in 1..Len(entries) |-> IF i = e THEN [entries[i] EXCEPT !.walkErr = TRUE]
                                ELSE entries[i]]

ScanTrees ==
    { WithWalkErr(<< DirEntry(D_root),
                     DirEntry(D_a),
                     DirEntry(P_cache),
                     FileEntry(P_cache_m, k1),
                     FileEntry(P_a_m, k2),
                     FileEntry(P_a_x, k3),
                     DirEntry(D_b),
                     DirEntry(P_b_d),
                     FileEntry(P_b_n, k4),
                     FileEntry(P_m, k5) >>, e) :
        k1 \in {k \in FileKinds : k.parseOK /\ Len(k.blocks) = 1},
        k2 \in FileKinds, k3 \in FileKinds,
        k4 \in {k \in FileKinds : Len(k.blocks) < 2},
        k5 \in {k \in FileKinds : Len(k.blocks) < 2},
        e \in 0..10 }

ScanTree ==
    /\ pc = "scan"
    /\ scanResult' = findTargetCandidates(tree)
    /\ pc' = "scanned_tree"
    /\ UNCHANGED << baseTargets, modules, targetCandidates, changes, pending, current,
                    stack, candidateModules, output, err, source, sourceType, tree,
                    prevModules, edit >>

ScanInit ==
    /\ pc = "scan"
    /\ tree \in ScanTrees
    /\ scanResult = NoneYet
    /\ source = << >>
    /\ sourceType = ""
    /\ baseTargets = << >>
    /\ modules = [d \in {} |-> [ok |-> TRUE, calls |-> {}]]
    /\ targetCandidates = {}
    /\ changes = NoChanges
    /\ pending = {}
    /\ current = NoCandidate
    /\ stack = << >>
    /\ candidateModules = EmptyMap
    /\ output = NoOutput
    /\ err = ""
    /\ prevModules = EmptyMap
    /\ edit = NoEdit

ScanNext == ScanTree

ScanSpec == ScanInit /\ [][ScanNext]_vars

-----------------------------------------------------------------------------
(* The closure builder on its own. ClosureSpec: the closure of one         *)
(* directory; the program is sequential and takes every step it can, hence *)
(* the weak fairness. MonotoneSpec: the closure of one directory, then one *)
(* local module call added to that directory's configuration, then the     *)
(* closure again.                                                          *)

LocalSources == {R_m, R_mm, R_parent, R_self}

\* the configuration of the directory gains one module call with a local source
AddLocalCall ==
    /\ pc = "closures"
    /\ stack = << >>
    /\ pending = {}
    /\ edit = NoEdit
    /\ \E dir \in targetCandidates, src \in LocalSources :
         /\ src \notin modules[dir].calls
         /\ modules' = [modules EXCEPT ![dir].calls = @ \cup {src}]
         /\ edit' = [dir |-> dir, src |-> src]
    /\ prevModules' = candidateModules
    /\ candidateModules' = EmptyMap
    /\ pending' = targetCandidates
    /\ UNCHANGED << pc, baseTargets, targetCandidates, changes, current, stack, output,
                    err, source, sourceType, tree, scanResult >>

\* the roots a closure is computed for; a root candidate that is not the
\* root of the computation declares nothing
ClosureRoots == {D_a, D_b, D_m, D_mm}

ClosureInit ==
    /\ pc = "closures"
    /\ modules \in ModuleGraphs(ClosurePools)
    /\ \E dir \in ClosureRoots :
         /\ targetCandidates = {dir}
         /\ pending = {dir}
         /\ \A other \in {D_a, D_b} \ {dir} : modules[other].calls = {}
    /\ baseTargets = << >>
    /\ changes = NoChanges
    /\ current = NoCandidate
    /\ stack = << >>
    /\ candidateModules = EmptyMap
    /\ output = NoOutput
    /\ err = ""
    /\ source = << >>
    /\ sourceType = ""
    /\ tree = << >>
    /\ scanResult = NoneYet
    /\ prevModules = EmptyMap
    /\ edit = NoEdit

ClosureNext ==
    \/ CallGetModuleCalls
    \/ NonLocalCall
    \/ LocalCall
    \/ Return

ClosureSpec == ClosureInit /\ [][ClosureNext]_vars /\ WF_vars(ClosureNext)

MonotoneNext ==
    \/ CallGetModuleCalls
    \/ NonLocalCall
    \/ LocalCall
    \/ Return
    \/ AddLocalCall

MonotoneSpec == ClosureInit /\ [][MonotoneNext]_vars

-----------------------------------------------------------------------------
(* Vocabulary of the properties, stated on the repository itself and not   *)
(* on what the program computed.                                           *)

\* s begins with the characters of prefix
BeginsWith(s, prefix) ==
    /\ Len(s) >= Len(prefix)
    /\ \A k \in 1..Len(prefix) : s[k] = prefix[k]

\* a source that is a relative path: "./..." or "../..."
IsLocalSource(src) == BeginsWith(src, << ".", "/" >>) \/ BeginsWith(src, << ".", ".", "/" >>)

\* the directories the local module calls of a loadable directory d point at
LocalTargets(d) ==
    IF d \in DOMAIN modules /\ modules[d].ok
    THEN {Join(d, src) : src \in {r \in modules[d].calls : IsLocalSource(r)}}
    ELSE {}

RECURSIVE Grow(_)
Grow(S) ==
    LET next == S \cup UNION {LocalTargets(d) : d \in S}
    IN IF next = S THEN S ELSE Grow(next)

\* the directories reached from d through one or more local module calls
ReachPlus(d) == Grow(LocalTargets(d))

\* the dependency closure of a root: the root and what it reaches
Closure(d) == {d} \cup ReachPlus(d)

\* some directory reached from d (d included) reaches itself
CyclicFrom(d) == \E x \in Closure(d) : x \in ReachPlus(x)

\* every directory reached from d (d included) loads
AllLoad(d) == \A x \in Closure(d) : x \in DOMAIN modules /\ modules[x].ok

\* the path elements of a cleaned relative path ("." has none)
Elems(path) == SelectSeq(Split(path), LAMBDA e : e # << >> /\ e # Dot)

\* file lies inside directory dir, at any depth
Inside(file, dir) ==
    LET f == Elems(file)
        d == Elems(dir)
    IN Len(d) < Len(f) /\ SubSeq(f, 1, Len(d)) = d

\* file lies directly in directory dir
DirectlyIn(file, dir) ==
    LET f == Elems(file)
        d == Elems(dir)
    IN Len(f) = Len(d) + 1 /\ SubSeq(f, 1, Len(d)) = d

\* p is m, or p is m, a separator, and more
AtOrBeneath(p, m) ==
    \/ p = m
    \/ /\ Len(p) > Len(m)
       /\ \A k \in 1..Len(m) : p[k] = m[k]
       /\ p[Len(m) + 1] = Sep

Done == pc = "done"

-----------------------------------------------------------------------------
(* C1: forced targets. *)

\* C1 (as claimed): in every run that succeeds, every forced target
\* (--base-targets), joined against baseDir/searchPath, is in the emitted
\* target set. listTargets never reads CLI.BaseTargets, so this fails.
C1_ForcedTargetsIncluded ==
    Done => \A i \in 1..Len(baseTargets) :
                Join(Join(BaseDir, SearchPath), baseTargets[i]) \in output.targets

-----------------------------------------------------------------------------
(* C2: which candidates the resolver returns. *)

\* C2: with no forced targets, a root candidate is in the emitted target set
\* exactly when some changed path equals a member of its closure (the
\* candidate and what it reaches through local module calls) or starts with
\* that member followed by the separator; a shared string prefix without the
\* separator does not count, and nothing else is emitted.
C2_TargetsAreTheImpactedCandidates ==
    (Done /\ baseTargets = << >>) =>
        output.targets =
            {c \in targetCandidates :
                \E i \in 1..Len(changes.files) : \E m \in Closure(c) :
                    AtOrBeneath(changes.files[i], m)}

\* a finished run in which candidate a depends on m, the only changed file
\* is mm/x, and nothing is targeted
C2_Witness ==
    /\ Done
    /\ baseTargets = << >>
    /\ D_a \in targetCandidates
    /\ D_m \in candidateModules[D_a]
    /\ D_mm \notin candidateModules[D_a]
    /\ changes.files = << F_mmx >>
    /\ output.targets = {}

-----------------------------------------------------------------------------
(* C3: fan-out. *)

\* C3 (as claimed): when a changed file lies inside a directory that two
\* distinct root candidates both reach through local module calls, both
\* candidates are in the emitted target set. It fails when that directory is
\* the repository root ".", which no changed path starts with.
C3_FanOut ==
    Done => \A i \in 1..Len(changes.files) :
              \A c1 \in targetCandidates, c2 \in targetCandidates :
                \A d \in ReachPlus(c1) \cap ReachPlus(c2) :
                    (c1 # c2 /\ Inside(changes.files[i], d)) =>
                        (c1 \in output.targets /\ c2 \in output.targets)

-----------------------------------------------------------------------------
(* C4: non-local module calls are not followed. *)

\* the step a frame takes when it is done with non-local source src
ConsumedNonLocal(src) ==
    /\ Len(stack') = Len(stack)
    /\ stack # << >>
    /\ src \in Top.todo
    /\ stack'[Len(stack)].todo = Top.todo \ {src}
    /\ DetectModuleSourceType(src) # ModuleSourceTypeLocal

\* C4: a recursive call of getModuleCalls is made only for a module call
\* classified local, on the directory joined with its source; a module call
\* classified otherwise adds the declaring directory and nothing else; and a
\* stored closure holds only the candidate and directories reached through
\* local sources.
C4_NonLocalNotFollowed ==
    /\ [][ /\ (Len(stack) >= 1 /\ Len(stack') = Len(stack) + 1) =>
                LET caller == stack'[Len(stack)]
                IN /\ DetectModuleSourceType(caller.sub) = ModuleSourceTypeLocal
                   /\ stack'[Len(stack')].dir = Join(caller.dir, caller.sub)
           /\ \A src \in (IF stack = << >> THEN {} ELSE Top.todo) :
                ConsumedNonLocal(src) =>
                    stack'[Len(stack)].calls = Top.calls \cup {Top.dir}
         ]_vars
    /\ [](\A c \in DOMAIN candidateModules : candidateModules[c] \subseteq Closure(c))

\* the frame of candidate a has gone past its git:: module call and holds
\* only a itself
C4_Witness ==
    /\ stack # << >>
    /\ stack[1].dir = D_a
    /\ modules[D_a].calls = {R_git}
    /\ stack[1].todo = {}
    /\ stack[1].calls = {D_a}

-----------------------------------------------------------------------------
(* C7: all or nothing. *)

\* C7: a failed scan, a failed git step or a directory that does not load
\* ends the run in an error with nothing emitted; a target set is emitted
\* only in a run without error, after the closure of every candidate was
\* stored complete, every directory any candidate reaches having loaded.
C7_AllOrNothing ==
    /\ (pc # "start" /\ scanResult.err) => pc = "error"
    /\ changes.err => pc = "error"
    /\ (pc = "error") <=> (err # "")
    /\ pc = "error" => ~output.emitted
    /\ output.emitted =>
          /\ Done
          /\ \A c \in targetCandidates :
                /\ AllLoad(c)
                /\ c \in DOMAIN candidateModules
                /\ candidateModules[c] = Closure(c)

\* a run that failed on a nested directory (mm, reached from candidate a
\* through m) after the closure of candidate b was stored
C7_Witness ==
    /\ pc = "error"
    /\ err = "load"
    /\ current = D_a
    /\ ~modules[D_mm].ok
    /\ modules[D_a].ok /\ modules[D_m].ok
    /\ D_b \in DOMAIN candidateModules
    /\ ~output.emitted

-----------------------------------------------------------------------------
(* C8: a closure contains its root. *)

\* C8: every closure listTargets stores contains the candidate it is stored
\* for, whatever module calls the candidate declares.
C8_ClosureContainsRoot ==
    \A c \in DOMAIN candidateModules : c \in candidateModules[c]

\* closures are stored for a candidate without module calls, whose closure
\* is itself alone, and for a candidate with a non-local module call
C8_Witness ==
    /\ DOMAIN candidateModules = {D_a, D_b}
    /\ modules[D_b].calls = {}
    /\ candidateModules[D_b] = {D_b}
    /\ modules[D_a].calls = {R_git, R_m}

-----------------------------------------------------------------------------
(* C5: the classifier's rules. *)

\* s[from..to] is a non-empty run of [A-Za-z0-9_-]
IsSegment(s, from, to) ==
    /\ from <= to
    /\ \A k \in from..to : IsWordChar(s[k])

\* three segments separated by "/", then nothing, or "//" and a suffix: any
\* suffix when anySuffix, else one without a newline
RegistryShape(s, anySuffix) ==
    \E a \in 1..Len(s) :
        /\ IsSegment(s, 1, a)
        /\ a + 1 <= Len(s) /\ s[a + 1] = Sep
        /\ \E b \in (a + 2)..Len(s) :
              /\ IsSegment(s, a + 2, b)
              /\ b + 1 <= Len(s) /\ s[b + 1] = Sep
              /\ \E c \in (b + 2)..Len(s) :
                    /\ IsSegment(s, b + 2, c)
                    /\ \/ c = Len(s)
                       \/ /\ c + 2 <= Len(s)
                          /\ s[c + 1] = Sep
                          /\ s[c + 2] = Sep
                          /\ (anySuffix \/ \A k \in (c + 3)..Len(s) : s[k] # NL)

\* rule k of the priority list matches s
RuleMatches(k, s, anySuffix) ==
    CASE k = 1 -> BeginsWith(s, << ".", "/" >>) \/ BeginsWith(s, << ".", ".", "/" >>)
      [] k = 2 -> BeginsWith(s, << "g", "i", "t", ":", ":" >>)
      [] k = 3 -> BeginsWith(s, << "h", "g", ":", ":" >>)
      [] k = 4 -> BeginsWith(s, << "s", "3", ":", ":" >>)
      [] k = 5 -> BeginsWith(s, << "g", "c", "s", ":", ":" >>)
      [] k = 6 -> \/ BeginsWith(s, << "h", "t", "t", "p", ":", "/", "/" >>)
                  \/ BeginsWith(s, << "h", "t", "t", "p", "s", ":", "/", "/" >>)
      [] k = 7 -> BeginsWith(s, << "g", "i", "t", "h", "u", "b", ".", "c", "o", "m", "/" >>)
      [] k = 8 -> BeginsWith(s, << "g", "i", "t", "@" >>)
      [] k = 9 -> RegistryShape(s, anySuffix)

RuleCategory ==
    << "local", "git", "mercurial", "s3", "gcs", "http", "github", "git", "registry" >>

\* the category of the first rule that matches, "unknown" when none does
FirstMatch(s, anySuffix) ==
    LET hits == {k \in 1..Len(RuleCategory) : RuleMatches(k, s, anySuffix)}
    IN IF hits = {} THEN "unknown"
       ELSE RuleCategory[CHOOSE k \in hits : \A j \in hits : k <= j]

\* C5 (as claimed): the classifier returns, for every string, the category
\* of the first matching rule, the registry rule taking any suffix after
\* "//". It fails on a suffix that holds a newline.
C5_FirstMatchAnySuffix ==
    pc = "classified" => sourceType = FirstMatch(source, TRUE)

\* C5 (amended): the classifier returns, for every string, the category of
\* the first matching rule, the registry rule taking after "//" any suffix
\* without a newline.
C5_FirstMatch ==
    pc = "classified" => sourceType = FirstMatch(source, FALSE)

\* "git::https://x" was classified, as git
C5_Witness ==
    /\ pc = "classified"
    /\ source = S_git \o S_https \o << "x" >>
    /\ sourceType = "git"

-----------------------------------------------------------------------------
(* C6: what the scanner returns. *)

TreeDirs == {tree[i].path : i \in {j \in 1..Len(tree) : tree[j].isDir}}

\* entry i is a configuration file: a file whose name ends in ".tf"
IsConfigFile(i) ==
    LET p == tree[i].path
    IN /\ ~tree[i].isDir
       /\ Len(p) >= 3
       /\ p[Len(p) - 2] = "." /\ p[Len(p) - 1] = "t" /\ p[Len(p)] = "f"

\* a configuration file directly in d parses and declares a terraform block
Qualifies(d) ==
    \E i \in 1..Len(tree) :
        /\ IsConfigFile(i)
        /\ DirectlyIn(tree[i].path, d)
        /\ tree[i].parseOK
        /\ \E j \in 1..Len(tree[i].blocks) : tree[i].blocks[j] = "terraform"

\* the path of d holds ".terragrunt-cache"
InCache(d) ==
    \E off \in 0..Len(d) :
        /\ off + Len(S_terragruntCache) <= Len(d)
        /\ \A j \in 1..Len(S_terragruntCache) : d[off + j] = S_terragruntCache[j]

\* C6: the scan fails exactly when the walk reports an error; otherwise it
\* returns exactly the directories of the tree that hold, directly, a
\* configuration file that parses and declares a terraform block, and whose
\* path does not hold ".terragrunt-cache". A file that does not parse
\* neither fails the scan nor decides for its directory.
C6_ScanResult ==
    pc = "scanned_tree" =>
        /\ scanResult.err <=> (\E i \in 1..Len(tree) : tree[i].walkErr)
        /\ ~scanResult.err =>
              scanResult.dirs = {d \in TreeDirs : Qualifies(d) /\ ~InCache(d)}

\* a scan that returned a, where m.tf does not parse and x.tf declares the
\* block, and not a/.terragrunt-cache, whose m.tf declares it too
C6_Witness ==
    /\ pc = "scanned_tree"
    /\ ~scanResult.err
    /\ ~tree[5].parseOK
    /\ tree[6].blocks = << "terraform" >>
    /\ tree[4].blocks = << "terraform" >>
    /\ D_a \in scanResult.dirs
    /\ P_cache \notin scanResult.dirs

-----------------------------------------------------------------------------
(* C9, C10: the closure builder. *)

\* the directory whose closure is computed
Root == CHOOSE d \in targetCandidates : TRUE

\* getModuleCalls(Root) has returned, with a set or with an error
Finished == pc = "error" \/ (stack = << >> /\ pending = {})

\* C9: when the closure of a directory is computed, one local module call is
\* added to the directory's configuration, and the closure is computed
\* again, the second closure contains the first.
C9_Monotone ==
    (edit # NoEdit /\ edit.dir \in DOMAIN candidateModules) =>
        prevModules[edit.dir] \subseteq candidateModules[edit.dir]

\* a closure that held a directory already and grew by the added call
C9_Witness ==
    /\ edit # NoEdit
    /\ edit.dir \in DOMAIN candidateModules
    /\ Cardinality(prevModules[edit.dir]) >= 2
    /\ prevModules[edit.dir] # candidateModules[edit.dir]

\* C10 (as claimed, second half): getModuleCalls does not return when some
\* directory reached from its argument reaches itself through local module
\* calls. It fails when the call of a directory that does not load is
\* reached first: the error ends the computation.
C10_NoReturnOnCycle ==
    Finished => ~CyclicFrom(Root)

\* C10 (amended): getModuleCalls returns, with a set or an error, whenever
\* no directory reached from its argument reaches itself; and it does not
\* return when one does and every directory reached from its argument loads.
C10_Termination ==
    /\ [](Finished => (~CyclicFrom(Root) \/ ~AllLoad(Root)))
    /\ ((~Finished /\ ~CyclicFrom(Root)) ~> Finished)

\* the recursion is MaxDepth frames deep in a graph with a cycle all of whose
\* directories load
C10_Witness ==
    /\ Len(stack) = MaxDepth
    /\ CyclicFrom(Root)
    /\ AllLoad(Root)
    /\ ~Finished

=============================================================================
